---- MODULE Spec2Model ----
(***************************************************************************)
(* Electrician Troubleshooter API (main.py): the rule-based troubleshoot   *)
(* lookup and the issue-report endpoints over the document store.          *)
(*                                                                         *)
(* Text that the handlers transform (equipment_type, symptom, the query q, *)
(* the searched fields, identifiers) is a sequence of one-character        *)
(* strings, so that strip(), lower(), str() and $regex are computed.  Text *)
(* that is only carried (causes, step titles, details) is a TLA+ string.   *)
(* An Optional value is <<>> (None) or <<v>>.                              *)
(***************************************************************************)
EXTENDS Integers, Sequences, FiniteSets, TLC

VARIABLES
  RULES,          \* the module-level rule table
  COMMON_SAFETY,  \* the module-level safety notes
  db,             \* database.db: None or the connected database
  issuereport,    \* the "issuereport" collection, in insertion order
  nextOid,        \* the store's next ObjectId
  lastOp,         \* the last request served and its response
  seen,           \* history: per looked-up key, the first request's readings and answer
  issued          \* history: the ids create_issue returned, in order

vars == <<RULES, COMMON_SAFETY, db, issuereport, nextOid, lastOp, seen, issued>>

None == <<>>

Some(v) == <<v>>

\* ------------------------------------------------------------------ str

LowerCase ==
  <<"a","b","c","d","e","f","g","h","i","j","k","l","m",
    "n","o","p","q","r","s","t","u","v","w","x","y","z">>

UpperCase ==
  <<"A","B","C","D","E","F","G","H","I","J","K","L","M",
    "N","O","P","Q","R","S","T","U","V","W","X","Y","Z">>

\* The characters str.strip() removes (the ASCII ones that the model's
\* inputs use).
Whitespace == {" ", "\t", "\n", "\r"}

\* The case mappings of the ASCII letters.
LowerOf ==
  [c \in {UpperCase[i] : i \in DOMAIN UpperCase} |->
     LowerCase[CHOOSE i \in DOMAIN UpperCase : UpperCase[i] = c]]

UpperOf ==
  [c \in {LowerCase[i] : i \in DOMAIN LowerCase} |->
     UpperCase[CHOOSE i \in DOMAIN LowerCase : LowerCase[i] = c]]

lower_char(c) == IF c \in DOMAIN LowerOf THEN LowerOf[c] ELSE c

upper_char(c) == IF c \in DOMAIN UpperOf THEN UpperOf[c] ELSE c

\* str.lower()
lower(s) == [i \in 1..Len(s) |-> lower_char(s[i])]

\* str.upper()
upper(s) == [i \in 1..Len(s) |-> upper_char(s[i])]

RECURSIVE lstrip(_)
lstrip(s) ==
  IF s # <<>> /\ Head(s) \in Whitespace THEN lstrip(Tail(s)) ELSE s

RECURSIVE rstrip(_)
rstrip(s) ==
  IF s # <<>> /\ s[Len(s)] \in Whitespace
  THEN rstrip(SubSeq(s, 1, Len(s) - 1))
  ELSE s

\* str.strip()
strip(s) == rstrip(lstrip(s))

\* ---------------------------------------------------------------- rules

outlet == <<"o","u","t","l","e","t">>

no_power == <<"n","o"," ","p","o","w","e","r">>

light == <<"l","i","g","h","t">>

flickering == <<"f","l","i","c","k","e","r","i","n","g">>

breaker == <<"b","r","e","a","k","e","r">>

trips_immediately ==
  <<"t","r","i","p","s"," ","i","m","m","e","d","i","a","t","e","l","y">>

SafetyNotes ==
  << "De-energize and lockout/tagout when possible before opening equipment.",
     "Use a properly rated meter and verify it on a known source before and after testing.",
     "Wear appropriate PPE for the available fault current and arc flash boundaries." >>

OutletRule ==
  [ causes |-> <<"Tripped breaker", "Tripped GFCI upstream", "Loose neutral or hot">>,
    steps |->
      << <<"Check panel", "Verify the branch breaker is not tripped; reset if safe.">>,
         <<"Test GFCIs", "Locate and reset any GFCI receptacles upstream in bathrooms, kitchen, garage, exterior.">>,
         <<"Voltage test", "Measure hot-to-neutral and hot-to-ground at the receptacle; expect ~120V.">>,
         <<"Inspect terminations", "If safe, check receptacle backstabs vs. screw terminals; tighten as needed.">> >>,
    next |-> <<"Document findings and load on circuit", "Consider replacing worn receptacle">> ]

LightRule ==
  [ causes |-> <<"Loose lamp", "Failed lamp/driver", "Loose neutral", "Dimmer incompatibility">>,
    steps |->
      << <<"Secure lamp", "Reseat or replace lamp/fixture module.">>,
         <<"Check dimmer", "Confirm fixture is compatible with installed dimmer; try bypassing dimmer.">>,
         <<"Wiggle test", "With power off, tighten wire nuts and terminal screws in fixture box.">> >>,
    next |-> <<"Check voltage stability under load", "Consider upgrading dimmer/driver">> ]

BreakerRule ==
  [ causes |-> <<"Hard short to ground/neutral", "Faulty breaker">>,
    steps |->
      << <<"Isolate loads", "Disconnect downstream loads and retry; if still trips, inspect homerun">>,
         <<"Megger/continuity", "With power off, test insulation resistance hot-to-neutral and hot-to-ground">> >>,
    next |-> <<"Replace breaker after fault cleared if nuisance persists">> ]

RuleKeys ==
  { <<outlet, no_power>>, <<light, flickering>>, <<breaker, trips_immediately>> }

\* The RULES literal: a dict keyed by (equipment, symptom) tuples.
RuleTable ==
  [ k \in RuleKeys |->
      IF k = <<outlet, no_power>> THEN OutletRule
      ELSE IF k = <<light, flickering>> THEN LightRule
      ELSE BreakerRule ]

\* A lookup that matches on the equipment alone.
dict_get_by_equipment(d, key) ==
  IF \E k \in DOMAIN d : k[1] = key[1]
  THEN Some(d[CHOOSE k \in DOMAIN d : k[1] = key[1]])
  ELSE None

\* dict.get(key): None when the key is absent
dict_get(d, key) == IF key \in DOMAIN d THEN Some(d[key]) ELSE None

\* `not rule`: None is falsy (no entry of RULES is an empty dict)
Falsy(opt) == opt = None

TroubleshootStep(t, d) == [title |-> t, detail |-> d]

GenericSteps ==
  << TroubleshootStep("Verify power", "Confirm source voltage and upstream overcurrent device status."),
     TroubleshootStep("Inspect connections", "De-energize and check all terminations for tightness and damage."),
     TroubleshootStep("Measure under load", "Compare open-circuit vs under-load readings to detect drops.") >>

TroubleshootResponse(causes, safety, steps, next) ==
  [ probable_causes |-> causes, safety_notes |-> safety,
    steps |-> steps, next_actions |-> next ]

\* A key that is lowercased but not stripped.
LookupKey_nostrip(req) == << lower(req.equipment_type), lower(req.symptom) >>

\* The key troubleshoot looks up.
LookupKey(req) ==
  << lower(strip(req.equipment_type)), lower(strip(req.symptom)) >>

\* A fallback that leaves the safety notes out.
TroubleshootBody_bare_fallback(rules, safety, req) ==
  LET rule == dict_get(rules, LookupKey(req))
  IN  IF Falsy(rule)
      THEN TroubleshootResponse(<<"Insufficient data">>, <<>>, GenericSteps,
                                <<"Provide more details or select a closer symptom">>)
      ELSE TroubleshootResponse(
             rule[1].causes, safety,
             [i \in 1..Len(rule[1].steps) |->
                TroubleshootStep(rule[1].steps[i][1], rule[1].steps[i][2])],
             rule[1].next)

\* A lookup that lets the readings refine the answer.
TroubleshootBody_by_readings(rules, safety, req) ==
  LET rule == dict_get(rules, LookupKey(req))
  IN  IF Falsy(rule) \/ (req.readings # None /\ req.readings[1] # <<>>)
      THEN TroubleshootResponse(<<"Insufficient data">>, safety, GenericSteps,
                                <<"Provide more details or select a closer symptom">>)
      ELSE TroubleshootResponse(
             rule[1].causes, safety,
             [i \in 1..Len(rule[1].steps) |->
                TroubleshootStep(rule[1].steps[i][1], rule[1].steps[i][2])],
             rule[1].next)

\* The body troubleshoot returns for req, given the globals it reads.
TroubleshootBody(rules, safety, req) ==
  LET rule == dict_get(rules, LookupKey(req))
  IN  IF Falsy(rule)
      THEN TroubleshootResponse(<<"Insufficient data">>, safety, GenericSteps,
                                <<"Provide more details or select a closer symptom">>)
      ELSE TroubleshootResponse(
             rule[1].causes, safety,
             [i \in 1..Len(rule[1].steps) |->
                TroubleshootStep(rule[1].steps[i][1], rule[1].steps[i][2])],
             rule[1].next)

\* A handler that takes the rule out of the table (RULES.pop).
troubleshoot_pop(req) ==
  LET body == TroubleshootBody(RULES, COMMON_SAFETY, req)
  IN  /\ lastOp' = [op |-> "troubleshoot", req |-> req, status |-> 200, body |-> body]
      /\ seen' = IF \E e \in seen : e.key = LookupKey(req) THEN seen
                  ELSE seen \cup { [key |-> LookupKey(req), readings |-> req.readings,
                                    body |-> body] }
      /\ RULES' = [k \in DOMAIN RULES \ {LookupKey(req)} |-> RULES[k]]
      /\ UNCHANGED <<COMMON_SAFETY, db, issuereport, nextOid, issued>>

\* POST /api/troubleshoot
troubleshoot(req) ==
  LET body == TroubleshootBody(RULES, COMMON_SAFETY, req)
  IN  /\ lastOp' = [op |-> "troubleshoot", req |-> req, status |-> 200, body |-> body]
      /\ seen' = IF \E e \in seen : e.key = LookupKey(req) THEN seen
                  ELSE seen \cup { [key |-> LookupKey(req), readings |-> req.readings,
                                    body |-> body] }
      /\ UNCHANGED <<RULES, COMMON_SAFETY, db, issuereport, nextOid, issued>>

\* ---------------------------------------------------------------- store

\* database.db: None when DATABASE_URL / DATABASE_NAME are not set
Connected == Some("db")

\* bson.ObjectId -> str
Digits == <<"0","1","2","3","4","5","6","7","8","9">>

RECURSIVE str_oid(_)
str_oid(n) ==
  IF n < 10 THEN <<Digits[n + 1]>>
  ELSE str_oid(n \div 10) \o <<Digits[(n % 10) + 1]>>

\* {"detail": ...} of the HTTPException both endpoints raise
HTTPException(status_code, detail) == [status_code |-> status_code, detail |-> detail]

\* MongoDB's $regex operator on one field (unanchored search): a pattern
\* character "." matches any character but a newline, any other character
\* of the model's alphabet matches itself, in either case under option "i".
regex_char(p, c, options) ==
  IF p = "." THEN c # "\n"
  ELSE IF options = "i" THEN lower_char(p) = lower_char(c)
  ELSE p = c

regex_search(pattern, options, text) ==
  \E at \in 0..(Len(text) - Len(pattern)) :
    \A i \in 1..Len(pattern) : regex_char(pattern[i], text[at + i], options)

\* A document against the filter list_issues builds: {} or {"$or": [...]}
matches(doc, flt) ==
  \/ flt = None
  \/ \E i \in 1..Len(flt[1]) :
       /\ flt[1][i].field \in DOMAIN doc
       /\ regex_search(flt[1][i].regex, flt[1][i].options, doc[flt[1][i].field])

RECURSIVE find(_, _)
find(docs, flt) ==
  IF docs = <<>> THEN <<>>
  ELSE (IF matches(Head(docs), flt) THEN <<Head(docs)>> ELSE <<>>)
       \o find(Tail(docs), flt)

\* database.get_documents(collection, filter, limit): the matching documents
\* in store order, capped at limit
get_documents(coll, flt, limit) ==
  LET found == find(coll, flt)
  IN  SubSeq(found, 1, IF limit < Len(found) THEN limit ELSE Len(found))

\* database.create_document(collection, data): the document the store keeps,
\* the report as given under a fresh _id
create_document(oid, issue) ==
  [f \in DOMAIN issue \cup {"_id"} |-> IF f = "_id" THEN oid ELSE issue[f]]

\* A handler without the `db is None` check.
create_issue_unguarded(issue) ==
  LET doc == create_document(nextOid, issue)
      _id == str_oid(doc["_id"])
  IN  /\ issuereport' = Append(issuereport, doc)
      /\ nextOid' = nextOid + 1
      /\ issued' = Append(issued, _id)
      /\ lastOp' = [op |-> "create", issue |-> issue, status |-> 200,
                    body |-> [id |-> _id, message |-> "Issue report saved"]]
      /\ UNCHANGED <<RULES, COMMON_SAFETY, db, seen>>

\* POST /api/issues
create_issue(issue) ==
  IF db = None
  THEN /\ lastOp' = [op |-> "create", issue |-> issue, status |-> 500,
                     body |-> HTTPException(500, "Database not configured")]
       /\ UNCHANGED <<RULES, COMMON_SAFETY, db, issuereport, nextOid, seen, issued>>
  ELSE LET doc == create_document(nextOid, issue)
           _id == str_oid(doc["_id"])
       IN  /\ issuereport' = Append(issuereport, doc)
           /\ nextOid' = nextOid + 1
           /\ issued' = Append(issued, _id)
           /\ lastOp' = [op |-> "create", issue |-> issue, status |-> 200,
                         body |-> [id |-> _id, message |-> "Issue report saved"]]
           /\ UNCHANGED <<RULES, COMMON_SAFETY, db, seen>>

\* A conversion that leaves the document as the store returned it.
expose_id_skipped(d) == d

\* for d in docs: if "_id" in d: d["id"] = str(d.pop("_id"))
expose_id(d) ==
  IF "_id" \in DOMAIN d
  THEN [f \in (DOMAIN d \ {"_id"}) \cup {"id"} |->
          IF f = "id" THEN str_oid(d["_id"]) ELSE d[f]]
  ELSE d

DefaultLimit == 50

\* flt of list_issues
search_filter(q) ==
  IF q # None /\ q[1] # <<>>
  THEN Some(<< [field |-> "notes", regex |-> q[1], options |-> "i"],
               [field |-> "symptom", regex |-> q[1], options |-> "i"],
               [field |-> "location", regex |-> q[1], options |-> "i"] >>)
  ELSE None

\* A handler whose d.pop("_id") reaches the stored documents.
list_issues_in_place(q, limit) ==
  IF db = None
  THEN /\ lastOp' = [op |-> "list", q |-> q, limit |-> limit, status |-> 500,
                     body |-> HTTPException(500, "Database not configured")]
       /\ UNCHANGED <<RULES, COMMON_SAFETY, db, issuereport, nextOid, seen, issued>>
  ELSE LET lim == IF limit = None THEN DefaultLimit ELSE limit[1]
           docs == get_documents(issuereport, search_filter(q), lim)
       IN  /\ lastOp' = [op |-> "list", q |-> q, limit |-> limit, status |-> 200,
                         body |-> [items |-> [i \in 1..Len(docs) |-> expose_id(docs[i])]]]
           /\ issuereport' = [i \in 1..Len(issuereport) |->
                                IF \E j \in 1..Len(docs) : docs[j] = issuereport[i]
                                THEN expose_id(issuereport[i]) ELSE issuereport[i]]
           /\ UNCHANGED <<RULES, COMMON_SAFETY, db, nextOid, seen, issued>>

\* GET /api/issues
list_issues(q, limit) ==
  IF db = None
  THEN /\ lastOp' = [op |-> "list", q |-> q, limit |-> limit, status |-> 500,
                     body |-> HTTPException(500, "Database not configured")]
       /\ UNCHANGED <<RULES, COMMON_SAFETY, db, issuereport, nextOid, seen, issued>>
  ELSE LET lim == IF limit = None THEN DefaultLimit ELSE limit[1]
           docs == get_documents(issuereport, search_filter(q), lim)
       IN  /\ lastOp' = [op |-> "list", q |-> q, limit |-> limit, status |-> 200,
                         body |-> [items |-> [i \in 1..Len(docs) |-> expose_id(docs[i])]]]
           /\ UNCHANGED <<RULES, COMMON_SAFETY, db, issuereport, nextOid, seen, issued>>

\* --------------------------------------------------------------- inputs

MaxDocs == 2

MaxLimit == 2

Readings ==
  { None, Some(<<>>), Some(<< <<"voltage", 120>>, <<"breaker_tripped", TRUE>> >>) }

fuse == <<"f","u","s","e">>

smells_burnt == <<"s","m","e","l","l","s"," ","b","u","r","n","t">>

\* The requests of the running service.
Requests ==
  [ equipment_type : { <<"O","u","t","l","e","t">>, fuse },
    symptom : { <<" ","N","o"," ","P","o","w","e","r"," ">>, no_power },
    readings : Readings ]

kitchen == <<"k","i","t","c","h","e","n">>

\* IssueReport payloads (schemas.IssueReport: the three searched fields)
Reports ==
  { [ notes |-> <<"K","i","t","c","h","e","n">>, symptom |-> no_power,
      location |-> <<"b","1">> ],
    [ notes |-> <<"o","k">>, symptom |-> <<"F","l","i","c","k","e","r">>,
      location |-> kitchen \o <<" ","2">> ],
    [ notes |-> <<"a",".","c">>, symptom |-> <<"h","u","m">>,
      location |-> <<"a","t","t","i","c">> ] }

Queries ==
  { None, Some(<<>>), Some(kitchen), Some(<<"K","I","T">>),
    Some(<<"k",".","t">>), Some(<<"z","z">>) }

Limits == { None } \cup { Some(n) : n \in (-1)..MaxLimit }

\* ------------------------------------------------------- specifications

Init ==
  /\ RULES = RuleTable
  /\ COMMON_SAFETY = SafetyNotes
  /\ db \in { None, Connected }
  /\ issuereport = <<>>
  /\ nextOid = 1
  /\ lastOp = [op |-> "start"]
  /\ seen = {}
  /\ issued = <<>>

Next ==
  \/ \E req \in Requests : troubleshoot(req)
  \/ \E issue \in Reports : Len(issuereport) < MaxDocs /\ create_issue(issue)
  \/ \E q \in Queries, limit \in Limits : list_issues(q, limit)

Spec == Init /\ [][Next]_vars

\* The lookup on its own: one request, drawn from every case and padding
\* variant of the table's strings and of strings the table lacks.
Pads == { <<>>, <<" ">>, <<"\t", "\n">> }

FlipAt(s, i) == [s EXCEPT ![i] = upper_char(s[i])]

\* str.title(): the first letter of every word in upper case
title(s) ==
  [i \in 1..Len(s) |-> IF i = 1 \/ s[i - 1] = " " THEN upper_char(s[i]) ELSE s[i]]

CaseVariants(b) == { b, upper(b), title(b) } \cup { FlipAt(b, i) : i \in 1..Len(b) }

Variants(b) == { l \o c \o r : l \in Pads, c \in CaseVariants(b), r \in Pads }

out_let == <<"o","u","t"," ","l","e","t">>

LookupEquipment ==
  UNION { Variants(b) : b \in { outlet, light, breaker, fuse, out_let, <<>> } }

LookupSymptoms ==
  UNION { Variants(b) :
            b \in { no_power, flickering, trips_immediately, smells_burnt, <<>> } }

LookupRequests ==
  [ equipment_type : LookupEquipment, symptom : LookupSymptoms, readings : { None } ]

InitLookup ==
  /\ RULES = RuleTable
  /\ COMMON_SAFETY = SafetyNotes
  /\ db = None
  /\ issuereport = <<>>
  /\ nextOid = 1
  /\ lastOp \in [ op : { "request" }, req : LookupRequests ]
  /\ seen = {}
  /\ issued = <<>>

NextLookup == lastOp.op = "request" /\ troubleshoot(lastOp.req)

SpecLookup == InitLookup /\ [][NextLookup]_vars

\* --------------------------------------------------------------- claims

\* s is k with letters changed in case and whitespace added around it.
IsVariantOf(s, k) ==
  \E at \in 0..(Len(s) - Len(k)) :
    /\ \A i \in 1..Len(k) : s[at + i] \in { k[i], upper_char(k[i]) }
    /\ \A j \in 1..at : s[j] \in Whitespace
    /\ \A j \in (at + Len(k) + 1)..Len(s) : s[j] \in Whitespace

Recognized(req, k) ==
  IsVariantOf(req.equipment_type, k[1]) /\ IsVariantOf(req.symptom, k[2])

Answered == lastOp.op = "troubleshoot"

\* C1: for every key of the rule table and every case / surrounding
\* whitespace variant of it, troubleshoot returns that entry's causes, steps
\* (title and detail) and next actions, each in the authored order; the
\* outlet / no power entry gives its 3 causes, 4 steps starting with
\* "Check panel", and its 2 next actions.
C1_VariantReturnsEntry ==
  Answered =>
    \A k \in RuleKeys :
      Recognized(lastOp.req, k) =>
        /\ lastOp.status = 200
        /\ lastOp.body.probable_causes = RuleTable[k].causes
        /\ Len(lastOp.body.steps) = Len(RuleTable[k].steps)
        /\ \A i \in 1..Len(RuleTable[k].steps) :
             /\ lastOp.body.steps[i].title = RuleTable[k].steps[i][1]
             /\ lastOp.body.steps[i].detail = RuleTable[k].steps[i][2]
        /\ lastOp.body.next_actions = RuleTable[k].next
        /\ k = <<outlet, no_power>> =>
             /\ lastOp.body.probable_causes =
                  <<"Tripped breaker", "Tripped GFCI upstream", "Loose neutral or hot">>
             /\ Len(lastOp.body.steps) = 4
             /\ lastOp.body.steps[1].title = "Check panel"
             /\ lastOp.body.next_actions =
                  <<"Document findings and load on circuit",
                    "Consider replacing worn receptacle">>

\* "Outlet" / " No Power " has been answered with the outlet entry.
C1_Witness ==
  /\ Answered
  /\ lastOp.req.equipment_type = <<"O","u","t","l","e","t">>
  /\ lastOp.req.symptom = <<" ","N","o"," ","P","o","w","e","r"," ">>
  /\ lastOp.body.steps[1].title = "Check panel"

\* C2: for every pair that is no case / whitespace variant of a key of the
\* rule table, troubleshoot answers exactly the fixed fallback (the one
\* cause, the three generic steps in order, the one next action); every
\* answer, matched or not, is a success.
C2_UnknownReturnsFallback ==
  Answered =>
       /\ lastOp.status = 200
       /\ (~ \E k \in RuleKeys : Recognized(lastOp.req, k)) =>
            /\ lastOp.body.probable_causes = <<"Insufficient data">>
            /\ Len(lastOp.body.steps) = 3
            /\ lastOp.body.steps[1] =
                 [title |-> "Verify power",
                  detail |-> "Confirm source voltage and upstream overcurrent device status."]
            /\ lastOp.body.steps[2] =
                 [title |-> "Inspect connections",
                  detail |-> "De-energize and check all terminations for tightness and damage."]
            /\ lastOp.body.steps[3] =
                 [title |-> "Measure under load",
                  detail |-> "Compare open-circuit vs under-load readings to detect drops."]
            /\ lastOp.body.next_actions =
                 <<"Provide more details or select a closer symptom">>

\* "fuse" / "smells burnt" has been answered with the fallback.
C2_Witness ==
  /\ Answered
  /\ lastOp.req.equipment_type = fuse
  /\ lastOp.req.symptom = smells_burnt
  /\ lastOp.body.probable_causes = <<"Insufficient data">>

\* C3: every troubleshoot response, matched or fallback and whatever was
\* served before it, carries the fixed three safety notes in their order.
C3_SafetyNotesFixed ==
  LET notes ==
        << "De-energize and lockout/tagout when possible before opening equipment.",
           "Use a properly rated meter and verify it on a known source before and after testing.",
           "Wear appropriate PPE for the available fault current and arc flash boundaries." >>
  IN  /\ Answered => lastOp.body.safety_notes = notes
      /\ \A e \in seen : e.body.safety_notes = notes

\* A matched response after a fallback response and a create.
C3_Witness ==
  /\ Answered
  /\ lastOp.body.probable_causes # <<"Insufficient data">>
  /\ Len(lastOp.body.safety_notes) = 3
  /\ \E e \in seen : e.body.probable_causes = <<"Insufficient data">>
  /\ issuereport # <<>>

\* C4: with the store not configured, create and list fail for every input
\* with the "Database not configured" error, return no id and no items, and
\* nothing is persisted.
C4_UnconfiguredFails ==
  db = None =>
    /\ issuereport = <<>>
    /\ nextOid = 1
    /\ issued = <<>>
    /\ lastOp.op \in {"create", "list"} =>
         /\ lastOp.status = 500
         /\ lastOp.body = [status_code |-> 500, detail |-> "Database not configured"]
         /\ "id" \notin DOMAIN lastOp.body
         /\ "items" \notin DOMAIN lastOp.body

\* A create refused by the unconfigured store.
C4_Witness ==
  /\ db = None
  /\ lastOp.op = "create"
  /\ lastOp.status = 500
  /\ issuereport = <<>>

Listed == lastOp.op = "list" /\ lastOp.status = 200

Created == lastOp.op = "create" /\ lastOp.status = 200

\* The limit list_issues runs with: 50 when none is given.
GivenLimit == IF lastOp.limit = None THEN 50 ELSE lastOp.limit[1]

\* text contains q as a literal substring, case-insensitively
ContainsLiteral(text, q) ==
  \E at \in 0..(Len(text) - Len(q)) :
    \A i \in 1..Len(q) : lower_char(text[at + i]) = lower_char(q[i])

\* C5: when q is provided, every record list returns has q as a
\* case-insensitive literal substring of its notes, symptom or location.
C5_OnlyLiteralMatches ==
  (Listed /\ lastOp.q # None) =>
    \A i \in 1..Len(lastOp.body.items) :
      \/ ContainsLiteral(lastOp.body.items[i].notes, lastOp.q[1])
      \/ ContainsLiteral(lastOp.body.items[i].symptom, lastOp.q[1])
      \/ ContainsLiteral(lastOp.body.items[i].location, lastOp.q[1])

\* C6: for every integer limit list returns at most limit records (50 when
\* none is given), and all records when q is omitted and the store holds no
\* more than limit.
C6_AtMostLimit ==
  Listed =>
    /\ Len(lastOp.body.items) <= GivenLimit
    /\ (lastOp.q = None /\ Len(issuereport) <= GivenLimit) =>
         Len(lastOp.body.items) = Len(issuereport)

\* C7: records are only ever added: no step removes or changes a stored
\* document, a successful create appends the report as given (under a new
\* _id), and an unfiltered list with a limit of at least the store size
\* returns every stored record.
C7_RecordsOnlyAdded ==
  /\ [][ /\ Len(issuereport') >= Len(issuereport)
         /\ \A i \in 1..Len(issuereport) : issuereport'[i] = issuereport[i]
         /\ (lastOp'.op = "create" /\ lastOp'.status = 200) =>
              /\ Len(issuereport') = Len(issuereport) + 1
              /\ DOMAIN issuereport'[Len(issuereport')] = DOMAIN lastOp'.issue \cup {"_id"}
              /\ \A f \in DOMAIN lastOp'.issue :
                   issuereport'[Len(issuereport')][f] = lastOp'.issue[f]
       ]_vars
  /\ [] ( (Listed /\ lastOp.q = None /\ GivenLimit >= Len(issuereport)) =>
            /\ Len(lastOp.body.items) = Len(issuereport)
            /\ \A i \in 1..Len(issuereport) :
                 \A f \in DOMAIN issuereport[i] \ {"_id"} :
                   /\ f \in DOMAIN lastOp.body.items[i]
                   /\ lastOp.body.items[i][f] = issuereport[i][f] )

\* Two reports are stored and an unfiltered list has returned both.
C7_Witness ==
  /\ Listed
  /\ lastOp.q = None
  /\ Len(issuereport) = 2
  /\ Len(lastOp.body.items) = 2
  /\ lastOp.body.items[2].notes = issuereport[2].notes

IsStr(x) == Len(x) > 0 /\ \A i \in 1..Len(x) : x[i] \in { Digits[d] : d \in DOMAIN Digits }

\* C8: the ids returned by create are strings and pairwise different; every
\* record list returns carries the id its create returned, as a string in
\* "id", and no "_id".
C8_IdsUniqueAndExposed ==
  /\ \A i, j \in DOMAIN issued : i # j => issued[i] # issued[j]
  /\ \A i \in DOMAIN issued : IsStr(issued[i])
  /\ Created => lastOp.body.id = issued[Len(issued)]
  /\ Listed =>
       \A i \in 1..Len(lastOp.body.items) :
         /\ "_id" \notin DOMAIN lastOp.body.items[i]
         /\ "id" \in DOMAIN lastOp.body.items[i]
         /\ IsStr(lastOp.body.items[i].id)
         /\ \E j \in DOMAIN issued :
              /\ issued[j] = lastOp.body.items[i].id
              /\ \A f \in {"notes", "symptom", "location"} :
                   lastOp.body.items[i][f] = issuereport[j][f]

\* A list has returned two records under the two ids create returned.
C8_Witness ==
  /\ Listed
  /\ Len(lastOp.body.items) = 2
  /\ lastOp.body.items[1].id = issued[1]
  /\ lastOp.body.items[2].id = issued[2]
  /\ issued[1] # issued[2]

\* C9: troubleshoot changes neither the rule table, the safety notes nor the
\* store; in every state the rule table has its three keys, each trimmed and
\* lowercased, and its authored entries.
C9_TroubleshootPure ==
  /\ [] ( /\ RULES = RuleTable
          /\ COMMON_SAFETY = SafetyNotes
          /\ Cardinality(DOMAIN RULES) = 3
          /\ \A k \in DOMAIN RULES : \A n \in 1..2 :
               /\ k[n] # <<>>
               /\ k[n][1] \notin Whitespace
               /\ k[n][Len(k[n])] \notin Whitespace
               /\ \A i \in 1..Len(k[n]) : k[n][i] \notin DOMAIN LowerOf )
  /\ [][ lastOp'.op = "troubleshoot" =>
           UNCHANGED <<RULES, COMMON_SAFETY, db, issuereport, nextOid, issued>> ]_vars

\* A matched request has been answered while the store holds a report.
C9_Witness ==
  /\ Answered
  /\ lastOp.body.probable_causes = OutletRule.causes
  /\ issuereport # <<>>
  /\ RULES = RuleTable

\* C10: the response depends only on the trimmed, lowercased pair: it equals
\* the first response given for that pair, whatever the readings of either
\* request and whatever was served in between.
C10_DependsOnKeyOnly ==
  Answered =>
    \E e \in seen :
      /\ e.key = << lower(strip(lastOp.req.equipment_type)),
                    lower(strip(lastOp.req.symptom)) >>
      /\ e.body = lastOp.body

\* The same pair answered again, spelled differently and with other
\* readings, after a report was stored.
C10_Witness ==
  /\ Answered
  /\ lastOp.req.symptom = <<" ","N","o"," ","P","o","w","e","r"," ">>
  /\ lastOp.req.readings # None
  /\ issuereport # <<>>
  /\ \E e \in seen :
       /\ e.key = <<outlet, no_power>>
       /\ e.readings = None
       /\ e.body = lastOp.body
       /\ e.body.probable_causes = OutletRule.causes

====
